---- MODULE Spec2Model ----
(***************************************************************************)
(* Caption / reference matching engine of caption_extractor.py.            *)
(*                                                                         *)
(* Text is modelled as a sequence of tokens [c |-> kind, n |-> chars].     *)
(* A token is one character of the class the regular expressions tell      *)
(* apart (a label character, a digit, a separator, white space), a word     *)
(* the patterns treat as a unit ("figure", "see"), or a run of n ordinary   *)
(* characters ("x", "y").  Character offsets and lengths are sums of n.     *)
(* Confidences of captions and references are kept in tenths (5 = 0.5);    *)
(* a pairing confidence is the exact fraction [num, den].                  *)
(***************************************************************************)
EXTENDS Integers, Sequences, FiniteSets, TLC

\* ------------------------------------------------------------- tokens ----
\* kinds:  tu 圖  biao 表  pian 片  ge 格  xiang 像
\*         ru 如  jian 見  can 參  kao 考  xiangx 詳  shang 上  xia 下
\*         suoshi 所示  xianshi 顯示  zhong 中  nei 內
\*         "0" "1" "2" digits, "." "-" ":" (colon, ASCII or full width), sp, nl
\*         figure table fig. tab. see refer to as shown in
\*         shows displays illustrates chart
\*         figure_i: Figure written with a dotless \u0131 or a dotted \u0130
\*         for its i.  The patterns are compiled with re.IGNORECASE and match
\*         it as they match Figure; str.lower() keeps \u0131 and turns \u0130
\*         into i + \u0307, so the lower-cased text does not hold "figure"
\*         x, y: runs of ordinary characters
KindLen(c) ==
  CASE c \in {"suoshi", "xianshi", "in", "to", "as"} -> 2
    [] c \in {"see"} -> 3
    [] c \in {"fig.", "tab."} -> 4
    [] c \in {"table", "shows", "chart", "refer", "shown"} -> 5
    [] c \in {"figure", "figure_i"} -> 6
    [] c \in {"displays"} -> 8
    [] c \in {"illustrates"} -> 11
    [] OTHER -> 1

T(c) == [c |-> c, n |-> KindLen(c)]
X(n) == [c |-> "x", n |-> n]
Y(n) == [c |-> "y", n |-> n]

Toks(ks) == [i \in 1..Len(ks) |-> T(ks[i])]

IsSpace(k) == k.c \in {"sp", "nl"}
IsDigit(k) == k.c \in {"0", "1", "2"}
IsFill(k) == k.c \in {"x", "y"}

\* len(text)
RECURSIVE CharLen(_)
CharLen(t) == IF t = <<>> THEN 0 ELSE Head(t).n + CharLen(Tail(t))

\* character offset of token offset j (the first j tokens)
Off(t, j) == CharLen(SubSeq(t, 1, j))

\* adjacent runs of the same ordinary character are one run
RECURSIVE Norm(_)
Norm(t) ==
  IF Len(t) < 2 THEN t
  ELSE IF IsFill(t[1]) /\ t[2].c = t[1].c
       THEN Norm(<<[c |-> t[1].c, n |-> t[1].n + t[2].n]>> \o SubSeq(t, 3, Len(t)))
       ELSE <<t[1]>> \o Norm(Tail(t))

\* a piece of a token cut at a character boundary: a run stays a run, a cut
\* word is ordinary characters
Piece(k, n) == IF n = k.n THEN k ELSE [c |-> IF IsFill(k) THEN k.c ELSE "x", n |-> n]

\* text[:n]
RECURSIVE TakeChars(_, _)
TakeChars(t, n) ==
  IF t = <<>> \/ n <= 0 THEN <<>>
  ELSE IF Head(t).n <= n THEN <<Head(t)>> \o TakeChars(Tail(t), n - Head(t).n)
       ELSE <<Piece(Head(t), n)>>

\* text[n:]
RECURSIVE DropChars(_, _)
DropChars(t, n) ==
  IF t = <<>> \/ n <= 0 THEN t
  ELSE IF Head(t).n <= n THEN DropChars(Tail(t), n - Head(t).n)
       ELSE <<Piece(Head(t), Head(t).n - n)>> \o Tail(t)

\* text[a:b]
Slice(t, a, b) == Norm(DropChars(TakeChars(t, b), a))

\* str.strip()
RECURSIVE LStrip(_)
LStrip(t) == IF t # <<>> /\ IsSpace(Head(t)) THEN LStrip(Tail(t)) ELSE t
RECURSIVE RStrip(_)
RStrip(t) == IF t # <<>> /\ IsSpace(t[Len(t)]) THEN RStrip(SubSeq(t, 1, Len(t) - 1)) ELSE t
Strip(t) == RStrip(LStrip(t))

\* needle in haystack, for sequences
IsSubSeq(a, b) ==
  \E i \in 0..(Len(b) - Len(a)) : SubSeq(b, i + 1, i + Len(a)) = a

Kinds(t) == [i \in 1..Len(t) |-> t[i].c]

\* the literal lit (a sequence of kinds) is read at token offset j
LitAt(t, j, lit) ==
  /\ j + Len(lit) <= Len(t)
  /\ \A i \in 1..Len(lit) : t[j + i].c = lit[i]

\* greedy runs from token offset j
RECURSIVE WsRun(_, _)
WsRun(t, j) == IF j < Len(t) /\ IsSpace(t[j + 1]) THEN 1 + WsRun(t, j + 1) ELSE 0
RECURSIVE DigitRun(_, _)
DigitRun(t, j) == IF j < Len(t) /\ IsDigit(t[j + 1]) THEN 1 + DigitRun(t, j + 1) ELSE 0

\* --------------------------------------------------- caption patterns ----
ZhLabels == << <<"tu">>, <<"biao">>, <<"tu", "biao">> >>
EnLabels == << <<"figure">>, <<"figure_i">>, <<"table">>, <<"fig.">>, <<"tab.">> >>

\* CHINESE_PATTERNS + ENGLISH_PATTERNS, in the order they are compiled.
\* gap: "colon" = \s*[:]\s*, "optcolon" = \s*[:]?\s*, "space" = \s+
\* look: what the lookahead accepts besides a newline and the end of text
CaptionPatterns == <<
  [labels |-> ZhLabels, seps |-> {"."}, gap |-> "colon", colons |-> {":"}, look |-> {}],
  [labels |-> ZhLabels, seps |-> {".", "-"}, gap |-> "colon", colons |-> {":"}, look |-> {}],
  [labels |-> EnLabels, seps |-> {"."}, gap |-> "optcolon", colons |-> {":"}, look |-> {}],
  [labels |-> << <<"tu", "pian">>, <<"biao", "ge">>, <<"tu", "xiang">> >>,
   seps |-> {".", "-"}, gap |-> "colon", colons |-> {":"}, look |-> {}],
  [labels |-> << <<"tu">>, <<"biao">> >>, seps |-> {".", "-"}, gap |-> "space",
   colons |-> {}, look |-> {"tu", "biao", "0", "1", "2"}],
  [labels |-> EnLabels, seps |-> {"."}, gap |-> "optcolon", colons |-> {":", "."}, look |-> {}],
  [labels |-> EnLabels, seps |-> {"."}, gap |-> "optcolon", colons |-> {":", "."}, look |-> {}]
>>

\* a match: token offsets [s, e) of group(0), [ns, ne) of group 1, [ss, se) of
\* group 2 (ss = se when the group did not take part), [ts, e) of group 3
NoMatch == [s |-> 0, e |-> 0, ns |-> 0, ne |-> 0, ss |-> 0, se |-> 0, ts |-> 0]
Matched(m) == m.e > 0

\* backtracking: what the first way matched, else what the next way matches
OrElse(r, next) == IF Matched(r) THEN r ELSE next

\* (?=\n|$) or (?=\n|$|圖|表|\d) at token offset e
LookOk(p, t, e) == e = Len(t) \/ t[e + 1].c = "nl" \/ t[e + 1].c \in p.look

\* (.+?) followed by the lookahead: the title read so far ends at e
RECURSIVE TitleEnd(_, _, _)
TitleEnd(p, t, e) ==
  IF e > Len(t) \/ t[e].c = "nl" THEN 0
  ELSE IF LookOk(p, t, e) THEN e ELSE TitleEnd(p, t, e + 1)

\* \s* (low = 0) or \s+ (low = 1), greedy, then the title
RECURSIVE WsTitle(_, _, _, _, _, _)
WsTitle(p, t, m, j, k, low) ==
  IF k < low THEN NoMatch
  ELSE LET e == TitleEnd(p, t, j + k + 1)
       IN IF e > 0 THEN [m EXCEPT !.ts = j + k, !.e = e]
          ELSE WsTitle(p, t, m, j, k - 1, low)

\* [:] or [:]? at token offset q, then \s* and the title: the colon is
\* taken first and left out when the rest fails with it
ColonTitle(p, t, m, q) ==
  OrElse(IF q < Len(t) /\ t[q + 1].c \in p.colons
         THEN WsTitle(p, t, m, q + 1, WsRun(t, q + 1), 0) ELSE NoMatch,
         IF p.gap = "optcolon" THEN WsTitle(p, t, m, q, WsRun(t, q), 0) ELSE NoMatch)

\* \s*[:]\s* or \s*[:]?\s*, greedy, then the title
RECURSIVE WsColon(_, _, _, _, _)
WsColon(p, t, m, j, k) ==
  IF k < 0 THEN NoMatch
  ELSE OrElse(ColonTitle(p, t, m, j + k), WsColon(p, t, m, j, k - 1))

Gap(p, t, m, j) ==
  IF p.gap = "space" THEN WsTitle(p, t, m, j, WsRun(t, j), 1)
  ELSE WsColon(p, t, m, j, WsRun(t, j))

\* (\d+) of the optional group, greedy
RECURSIVE SubDigits(_, _, _, _, _)
SubDigits(p, t, m, ss, d) ==
  IF d < 1 THEN NoMatch
  ELSE OrElse(Gap(p, t, [m EXCEPT !.ss = ss, !.se = ss + d], ss + d),
              SubDigits(p, t, m, ss, d - 1))

\* (?:[.-](\d+))? : taken first, skipped when the rest fails with it
OptGroup(p, t, m) ==
  OrElse(IF m.ne < Len(t) /\ t[m.ne + 1].c \in p.seps
         THEN SubDigits(p, t, m, m.ne + 1, DigitRun(t, m.ne + 1)) ELSE NoMatch,
         Gap(p, t, m, m.ne))

\* (\d+), greedy
RECURSIVE Digits(_, _, _, _, _)
Digits(p, t, i, ns, d) ==
  IF d < 1 THEN NoMatch
  ELSE OrElse(OptGroup(p, t, [NoMatch EXCEPT !.s = i, !.ns = ns, !.ne = ns + d]),
              Digits(p, t, i, ns, d - 1))

\* [\s]* after the label, greedy
RECURSIVE LabelWs(_, _, _, _, _)
LabelWs(p, t, i, j, k) ==
  IF k < 0 THEN NoMatch
  ELSE OrElse(Digits(p, t, i, j + k, DigitRun(t, j + k)), LabelWs(p, t, i, j, k - 1))

\* the label alternatives, in order
RECURSIVE Labels(_, _, _, _)
Labels(p, t, i, a) ==
  IF a > Len(p.labels) THEN NoMatch
  ELSE LET lab == p.labels[a]
           j == i + Len(lab)
       IN OrElse(IF LitAt(t, i, lab) THEN LabelWs(p, t, i, j, WsRun(t, j)) ELSE NoMatch,
                 Labels(p, t, i, a + 1))

\* the pattern tried at token offset i
CaptionMatchAt(p, t, i) == Labels(p, t, i, 1)

\* pattern.finditer(text): leftmost matches, not overlapping
RECURSIVE CaptionFindIter(_, _, _)
\* the search goes on after the match m tried at pos
CaptionFindNext(p, t, pos, m) ==
  IF Matched(m) THEN <<m>> \o CaptionFindIter(p, t, m.e) ELSE CaptionFindIter(p, t, pos + 1)

CaptionFindIter(p, t, pos) ==
  IF pos >= Len(t) THEN <<>> ELSE CaptionFindNext(p, t, pos, CaptionMatchAt(p, t, pos))

\* ---------------------------------------------------------- fragments ----
\* the fragments of the unit tests and of the documented scenarios
\* "圖 1：測試圖片說明\n這是圖片的詳細描述。"
Scenario1Text ==
  <<T("tu"), T("sp"), T("1"), T(":"), X(2), T("tu"), T("pian"), X(2), T("nl"),
    X(2), T("tu"), T("pian"), X(6)>>
\* "如圖 1 所示，結果很明顯"
Scenario2Text == <<T("ru"), T("tu"), T("sp"), T("1"), T("sp"), T("suoshi"), X(6)>>
\* "根據研究結果，如圖 1 所示，數據呈現明顯趨勢。"
TestRefText == <<X(7), T("ru"), T("tu"), T("sp"), T("1"), T("sp"), T("suoshi"), X(10)>>
\* "表 2.1：統計資料表\n包含各種數據的統計表格。"
Scenario5Text ==
  <<T("biao"), T("sp"), T("2"), T("."), T("1"), T(":"), X(4), T("biao"), T("nl"),
    X(9), T("biao"), T("ge"), X(1)>>

Fragment(text, font_size, is_bold) ==
  [text |-> text, font_size |-> font_size, is_bold |-> is_bold]

\* what a block of a page may be: its text and the font of its first span
Pool ==
  { Fragment(Scenario1Text, 12, TRUE),
    Fragment(Scenario2Text, 12, FALSE),
    Fragment(TestRefText, 10, FALSE),
    Fragment(Scenario5Text, 11, FALSE),
    \* captions numbered 12, 1.1 and 1; two titles alike in their first 50 characters
    Fragment(<<T("tu"), T("1"), T("2"), T(":"), X(8)>>, 14, TRUE),
    Fragment(<<T("tu"), T("1"), T("."), T("1"), T(":"), X(6)>>, 12, FALSE),
    Fragment(<<T("tu"), T("1"), T(":"), X(50), Y(10)>>, 12, FALSE),
    Fragment(<<T("tu"), T("1"), T(":"), X(60)>>, 12, TRUE),
    \* a long caption in a small font; 圖表, and 圖片 with a dash
    Fragment(<<T("tu"), T("1"), T(":"), X(210)>>, 7, FALSE),
    Fragment(<<T("tu"), T("biao"), T("sp"), T("2"), T(":"), X(6), T("nl"),
               T("tu"), T("pian"), T("2"), T("-"), T("1"), T(":"), X(12)>>, 12, FALSE),
    \* two captions without colon on one line, the second title short
    Fragment(<<T("tu"), T("sp"), T("1"), T("sp"), X(6), T("tu"), T("sp"), T("2"), T("sp"), Y(2)>>,
             12, FALSE),
    \* captions numbered 2 and 10 in one block
    Fragment(<<T("tu"), T("2"), T(":"), X(6), T("nl"), T("tu"), T("1"), T("0"), T(":"), Y(6)>>,
             12, FALSE),
    \* an English caption and a mention of it
    Fragment(<<T("figure"), T("sp"), T("1"), T(":"), T("sp"), X(9), T("chart"), T("nl"),
               T("see"), T("sp"), T("figure"), T("sp"), T("1"), T("sp"), T("shows")>>, 12, FALSE),
    \* an English caption whose label has a dotless i
    Fragment(<<T("figure_i"), T("sp"), T("2"), T(":"), T("sp"), X(9), T("chart")>>, 12, FALSE),
    \* mentions: of 1.1, of table 2, one inside a long sentence, three in a row
    Fragment(<<T("ru"), T("tu"), T("1"), T("."), T("1")>>, 10, FALSE),
    Fragment(<<T("shang"), T("biao"), T("2"), T("zhong"), X(60)>>, 10, FALSE),
    Fragment(<<X(60), T("ru"), T("tu"), T("1"), T("zhong"), X(60)>>, 10, FALSE),
    Fragment(<<T("ru"), T("tu"), T("1"), T("zhong"), T("sp"), T("jian"), T("tu"), T("1"),
               T("zhong"), T("sp"), T("ru"), T("tu"), T("1"), T("suoshi")>>, 10, FALSE) }

PoolTexts == {f.text : f \in Pool}

\* pattern.finditer(block.text) for every pattern of caption_patterns and
\* every text a block may hold
CaptionScan ==
  [t \in PoolTexts |->
     [pi \in 1..Len(CaptionPatterns) |-> CaptionFindIter(CaptionPatterns[pi], t, 0)]]

\* ----------------------------------------------------- caption helpers ----
\* "{n1}.{n2}" if the sub-number took part, else n1
Number(t, m) ==
  IF m.se > m.ss
  THEN Kinds(SubSeq(t, m.ns + 1, m.ne)) \o <<".">> \o Kinds(SubSeq(t, m.ss + 1, m.se))
  ELSE Kinds(SubSeq(t, m.ns + 1, m.ne))

Group0(t, m) == SubSeq(t, m.s + 1, m.e)
Group3(t, m) == SubSeq(t, m.ts + 1, m.e)

\* the text holds 圖表: 圖 directly followed by 表
HasTuBiao(t) == \E i \in 1..(Len(t) - 1) : t[i].c = "tu" /\ t[i + 1].c = "biao"
HasKind(t, ks) == \E i \in 1..Len(t) : t[i].c \in ks

\* the chart keywords tested before the figure and table keywords
_determine_caption_type_ChartFirst(caption_text) ==
  IF HasKind(caption_text, {"chart"}) \/ HasTuBiao(caption_text) THEN "chart"
  ELSE IF HasKind(caption_text, {"tu", "figure", "fig."}) THEN "figure"
  ELSE IF HasKind(caption_text, {"biao", "table", "tab."}) THEN "table"
  ELSE "figure"

_determine_caption_type(caption_text) ==
  IF HasKind(caption_text, {"tu", "figure", "fig."}) THEN "figure"
  ELSE IF HasKind(caption_text, {"biao", "table", "tab."}) THEN "table"
  ELSE IF HasKind(caption_text, {"chart"}) \/ HasTuBiao(caption_text) THEN "chart"
  ELSE "figure"

Min(a, b) == IF a <= b THEN a ELSE b
Max(a, b) == IF a >= b THEN a ELSE b

\* min(1.0, max(0.0, confidence)), in tenths
Clamp01(c) == Min(10, Max(0, c))

\* ------------------------------------------------------------- floats ----
\* A Python float is an IEEE 754 double.  The doubles met here lie between
\* 2^-4 and 2^4 and are whole multiples of 2^-56: a double is kept as that
\* whole number, in three limbs <<low, middle, high>> of 24 bits.  Every
\* operation is the exact one followed by rounding to 53 significant bits,
\* halves to even.
Base == 2^24

\* the limbs after the carries
FCarry(a) ==
  LET c1 == a[1] \div Base
      c2 == (a[2] + c1) \div Base
  IN <<a[1] % Base, (a[2] + c1) % Base, a[3] + c2>>

\* the limbs after the borrows, for a difference that is not negative
FBorrow(a) ==
  LET b1 == IF a[1] < 0 THEN 1 ELSE 0
      b2 == IF a[2] - b1 < 0 THEN 1 ELSE 0
  IN <<a[1] + b1 * Base, a[2] - b1 + b2 * Base, a[3] - b2>>

\* the number of bits of n: 2^(k-1) <= n < 2^k, and 0 for 0
BitLen(n) == CHOOSE k \in 0..30 : 2^k > n /\ (k = 0 \/ 2^(k - 1) <= n)

\* a <= b, a < b
FLeq(a, b) ==
  \/ a[3] < b[3]
  \/ a[3] = b[3] /\ a[2] < b[2]
  \/ a[3] = b[3] /\ a[2] = b[2] /\ a[1] <= b[1]
FLess(a, b) == FLeq(a, b) /\ a # b

\* the double nearest to q + r/n (0 <= r < n)
FRound(q, r, n) ==
  LET s == Max(0, 48 + BitLen(q[3]) - 53)
      ulp == 2^s
      low == q[1] % ulp
      odd == (q[1] \div ulp) % 2 = 1
      up == \/ 2 * (low * n + r) > ulp * n
            \/ 2 * (low * n + r) = ulp * n /\ odd
  IN FCarry(<<q[1] - low + (IF up THEN ulp ELSE 0), q[2], q[3]>>)

\* a + b, a - b (a >= b), n * a, a / n
FAdd(a, b) == FRound(FCarry(<<a[1] + b[1], a[2] + b[2], a[3] + b[3]>>), 0, 1)
FSub(a, b) == FRound(FBorrow(<<a[1] - b[1], a[2] - b[2], a[3] - b[3]>>), 0, 1)
FMul(n, a) == FRound(FCarry(<<n * a[1], n * a[2], n * a[3]>>), 0, 1)
FDiv(a, n) ==
  LET r3 == a[3] % n
      r2 == (r3 * Base + a[2]) % n
      r1 == (r2 * Base + a[1]) % n
  IN FRound(<<(r2 * Base + a[1]) \div n, (r3 * Base + a[2]) \div n, a[3] \div n>>, r1, n)

\* the double of the whole number k, and of the decimal literal k/d
FInt(k) == <<0, 0, k * 2^8>>
FLit(k, d) == FDiv(FInt(k), d)

\* min(a, b), max(a, b) of Python: the first argument unless the second is
\* strictly smaller (larger)
FMin(a, b) == IF FLess(b, a) THEN b ELSE a
FMax(a, b) == IF FLess(a, b) THEN b ELSE a

\* min(1.0, max(0.0, x))
FClamp01(x) == FMin(FInt(1), FMax(FInt(0), x))

\* the length bonus with its bounds included: 10 <= text_length <= 100
_calculate_caption_confidence_Inclusive(block, match_text) ==
  LET size == IF block.font_size > 12 THEN 1 ELSE IF block.font_size < 8 THEN 0 - 1 ELSE 0
      bold == IF block.is_bold THEN 2 ELSE 0
      text_length == CharLen(Strip(match_text))
      length == IF 10 <= text_length /\ text_length <= 100 THEN 1
                ELSE IF text_length > 200 THEN 0 - 1 ELSE 0
  IN Clamp01(5 + size + bold + length)

\* the font factor with its bounds included: font_size >= 12, font_size <= 8
_calculate_caption_confidence_FontInclusive(block, match_text) ==
  LET size == IF block.font_size >= 12 THEN 1 ELSE IF block.font_size <= 8 THEN 0 - 1 ELSE 0
      bold == IF block.is_bold THEN 2 ELSE 0
      text_length == CharLen(Strip(match_text))
      length == IF 10 < text_length /\ text_length < 100 THEN 1
                ELSE IF text_length > 200 THEN 0 - 1 ELSE 0
  IN Clamp01(5 + size + bold + length)

_calculate_caption_confidence(block, match_text) ==
  LET size == IF block.font_size > 12 THEN 1 ELSE IF block.font_size < 8 THEN 0 - 1 ELSE 0
      bold == IF block.is_bold THEN 2 ELSE 0
      text_length == CharLen(Strip(match_text))
      length == IF 10 < text_length /\ text_length < 100 THEN 1
                ELSE IF text_length > 200 THEN 0 - 1 ELSE 0
  IN Clamp01(5 + size + bold + length)

\* the same steps on doubles: the float _calculate_caption_confidence returns
_calculate_caption_confidence_float(block, match_text) ==
  LET text_length == CharLen(Strip(match_text))
      sized == IF block.font_size > 12 THEN FAdd(FLit(5, 10), FLit(1, 10))
               ELSE IF block.font_size < 8 THEN FSub(FLit(5, 10), FLit(1, 10))
               ELSE FLit(5, 10)
      bolded == IF block.is_bold THEN FAdd(sized, FLit(2, 10)) ELSE sized
      lengthed == IF 10 < text_length /\ text_length < 100 THEN FAdd(bolded, FLit(1, 10))
                  ELSE IF text_length > 200 THEN FSub(bolded, FLit(1, 10))
                  ELSE bolded
  IN FClamp01(lengthed)

\* the key of a caption in _deduplicate_captions
DedupKey(caption) == <<caption.page_number, caption.number, TakeChars(caption.text, 50)>>

RECURSIVE Dedup(_, _)
Dedup(captions, seen) ==
  IF captions = <<>> THEN <<>>
  ELSE LET key == DedupKey(Head(captions))
       IN IF key \notin seen THEN <<Head(captions)>> \o Dedup(Tail(captions), seen \cup {key})
          ELSE Dedup(Tail(captions), seen)

\* deduplication on the whole title instead of its first 50 characters
RECURSIVE DedupFullTitle(_, _)
DedupFullTitle(captions, seen) ==
  IF captions = <<>> THEN <<>>
  ELSE LET c == Head(captions)
           key == <<c.page_number, c.number, c.text>>
       IN IF key \notin seen THEN <<c>> \o DedupFullTitle(Tail(captions), seen \cup {key})
          ELSE DedupFullTitle(Tail(captions), seen)

_deduplicate_captions_FullTitle(captions) == DedupFullTitle(captions, {})

\* deduplication that keeps the last candidate of each key
RECURSIVE _deduplicate_captions_KeepLast(_)
_deduplicate_captions_KeepLast(captions) ==
  IF captions = <<>> THEN <<>>
  ELSE IF \E j \in 2..Len(captions) : DedupKey(captions[j]) = DedupKey(captions[1])
       THEN _deduplicate_captions_KeepLast(Tail(captions))
       ELSE <<Head(captions)>> \o _deduplicate_captions_KeepLast(Tail(captions))

_deduplicate_captions(captions) == Dedup(captions, {})

\* code points order the characters of a number: '.' < '0' < '1' < '2'
CharOrd(c) ==
  CASE c = "." -> 46 [] c = "0" -> 48 [] c = "1" -> 49 [] c = "2" -> 50 [] OTHER -> 0

\* a < b for strings
RECURSIVE StrLess(_, _)
StrLess(a, b) ==
  IF b = <<>> THEN FALSE
  ELSE IF a = <<>> THEN TRUE
  ELSE IF Head(a) # Head(b) THEN CharOrd(Head(a)) < CharOrd(Head(b))
  ELSE StrLess(Tail(a), Tail(b))

\* the value of a string of digits
RECURSIVE DigitsValue(_)
DigitsValue(ds) ==
  IF ds = <<>> THEN 0
  ELSE 10 * DigitsValue(SubSeq(ds, 1, Len(ds) - 1)) + (CharOrd(ds[Len(ds)]) - 48)

\* the number and sub-number of "n1" or "n1.n2" as integers
NumericKey(number) ==
  IF \E i \in 1..Len(number) : number[i] = "."
  THEN LET d == CHOOSE i \in 1..Len(number) : number[i] = "."
       IN <<DigitsValue(SubSeq(number, 1, d - 1)), 1 + DigitsValue(SubSeq(number, d + 1, Len(number)))>>
  ELSE <<DigitsValue(number), 0>>

\* the sort key with the numbers compared as numbers
KeyLess_Numeric(x, y) ==
  \/ x.page_number < y.page_number
  \/ /\ x.page_number = y.page_number
     /\ \/ NumericKey(x.number)[1] < NumericKey(y.number)[1]
        \/ /\ NumericKey(x.number)[1] = NumericKey(y.number)[1]
           /\ NumericKey(x.number)[2] < NumericKey(y.number)[2]

\* (x.page_number, x.number) < (y.page_number, y.number)
KeyLess(x, y) ==
  \/ x.page_number < y.page_number
  \/ x.page_number = y.page_number /\ StrLess(x.number, y.number)

\* list.sort is stable: x goes after the elements that are not greater
RECURSIVE SortInsert(_, _)
SortInsert(sorted, x) ==
  IF sorted = <<>> THEN <<x>>
  ELSE IF KeyLess(x, Head(sorted)) THEN <<x>> \o sorted
  ELSE <<Head(sorted)>> \o SortInsert(Tail(sorted), x)

RECURSIVE SortCaptions(_)
SortCaptions(captions) ==
  IF captions = <<>> THEN <<>>
  ELSE SortInsert(SortCaptions(SubSeq(captions, 1, Len(captions) - 1)), captions[Len(captions)])

\* the candidate of one match, or none when the title is too short
\* a title as long as min_caption_length is skipped too
CandidateOf_AtMost(cfg, block, m) ==
  LET caption_text == Group3(block.text, m)
  IN IF CharLen(Strip(caption_text)) <= cfg.min_caption_length THEN <<>>
     ELSE << [text |-> Strip(caption_text),
              page_number |-> block.page_number,
              position |-> block.bbox,
              caption_type |-> _determine_caption_type(Group0(block.text, m)),
              number |-> Number(block.text, m),
              confidence |-> _calculate_caption_confidence(block, Group0(block.text, m)),
              confidence_float |->
                _calculate_caption_confidence_float(block, Group0(block.text, m)),
              font_info |-> [font_size |-> block.font_size, is_bold |-> block.is_bold]] >>

CandidateOf(cfg, block, m) ==
  LET caption_text == Group3(block.text, m)
  IN IF CharLen(Strip(caption_text)) < cfg.min_caption_length THEN <<>>
     ELSE << [text |-> Strip(caption_text),
              page_number |-> block.page_number,
              position |-> block.bbox,
              caption_type |-> _determine_caption_type(Group0(block.text, m)),
              number |-> Number(block.text, m),
              confidence |-> _calculate_caption_confidence(block, Group0(block.text, m)),
              confidence_float |->
                _calculate_caption_confidence_float(block, Group0(block.text, m)),
              font_info |-> [font_size |-> block.font_size, is_bold |-> block.is_bold]] >>

RECURSIVE CandidatesOfMatches(_, _, _)
CandidatesOfMatches(cfg, block, ms) ==
  IF ms = <<>> THEN <<>>
  ELSE CandidateOf(cfg, block, Head(ms)) \o CandidatesOfMatches(cfg, block, Tail(ms))

RECURSIVE CandidatesOfBlock(_, _, _)
CandidatesOfBlock(cfg, block, pi) ==
  IF pi > Len(CaptionPatterns) THEN <<>>
  ELSE CandidatesOfMatches(cfg, block, CaptionScan[block.text][pi])
       \o CandidatesOfBlock(cfg, block, pi + 1)

\* the candidates before deduplication
RECURSIVE RawCandidates(_, _)
RawCandidates(cfg, text_blocks) ==
  IF text_blocks = <<>> THEN <<>>
  ELSE CandidatesOfBlock(cfg, Head(text_blocks), 1) \o RawCandidates(cfg, Tail(text_blocks))

identify_captions(cfg, text_blocks) ==
  SortCaptions(_deduplicate_captions(RawCandidates(cfg, text_blocks)))

\* ------------------------------------------------- reference patterns ----
\* REFERENCE_PATTERNS in order.  cues: the alternatives in front of the label
\* (none: the pattern starts with the label); suffix: the alternatives after
\* the number (none: the pattern ends with the number)
ReferencePatterns == <<
  [cues |-> << <<"ru">>, <<"jian">>, <<"can", "jian">>, <<"can", "kao">>, <<"xiangx", "jian">> >>,
   labels |-> ZhLabels, seps |-> {".", "-"}, suffix |-> <<>>],
  [cues |-> <<>>, labels |-> ZhLabels, seps |-> {".", "-"},
   suffix |-> << <<"suoshi">>, <<"xianshi">>, <<"zhong">>, <<"nei">> >>],
  [cues |-> << <<"shang">>, <<"xia">> >>, labels |-> << <<"tu">>, <<"biao">> >>,
   seps |-> {".", "-"}, suffix |-> <<>>],
  [cues |-> << <<"see">>, <<"refer", "sp", "to">>, <<"as", "sp", "shown", "sp", "in">>, <<"in">> >>,
   labels |-> EnLabels, seps |-> {"."}, suffix |-> <<>>],
  [cues |-> <<>>, labels |-> EnLabels, seps |-> {"."}, suffix |-> << <<"shows">>, <<"displays">>, <<"illustrates">> >>]
>>

\* the suffix alternatives, in order, at token offset j
RECURSIVE RefSuffix(_, _, _, _, _)
RefSuffix(p, t, m, j, a) ==
  IF a > Len(p.suffix) THEN NoMatch
  ELSE IF LitAt(t, j, p.suffix[a]) THEN [m EXCEPT !.e = j + Len(p.suffix[a])]
  ELSE RefSuffix(p, t, m, j, a + 1)

\* [\s]* before the suffix, greedy
RECURSIVE RefSuffixWs(_, _, _, _, _)
RefSuffixWs(p, t, m, j, k) ==
  IF k < 0 THEN NoMatch
  ELSE OrElse(RefSuffix(p, t, m, j + k, 1), RefSuffixWs(p, t, m, j, k - 1))

RefEnd(p, t, m, j) ==
  IF p.suffix = <<>> THEN [m EXCEPT !.e = j] ELSE RefSuffixWs(p, t, m, j, WsRun(t, j))

RECURSIVE RefSubDigits(_, _, _, _, _)
RefSubDigits(p, t, m, ss, d) ==
  IF d < 1 THEN NoMatch
  ELSE OrElse(RefEnd(p, t, [m EXCEPT !.ss = ss, !.se = ss + d], ss + d),
              RefSubDigits(p, t, m, ss, d - 1))

RefOptGroup(p, t, m) ==
  OrElse(IF m.ne < Len(t) /\ t[m.ne + 1].c \in p.seps
         THEN RefSubDigits(p, t, m, m.ne + 1, DigitRun(t, m.ne + 1)) ELSE NoMatch,
         RefEnd(p, t, m, m.ne))

RECURSIVE RefDigits(_, _, _, _, _)
RefDigits(p, t, i, ns, d) ==
  IF d < 1 THEN NoMatch
  ELSE OrElse(RefOptGroup(p, t, [NoMatch EXCEPT !.s = i, !.ns = ns, !.ne = ns + d]),
              RefDigits(p, t, i, ns, d - 1))

RECURSIVE RefLabelWs(_, _, _, _, _)
RefLabelWs(p, t, i, j, k) ==
  IF k < 0 THEN NoMatch
  ELSE OrElse(RefDigits(p, t, i, j + k, DigitRun(t, j + k)), RefLabelWs(p, t, i, j, k - 1))

RECURSIVE RefLabels(_, _, _, _, _)
RefLabels(p, t, i, j, a) ==
  IF a > Len(p.labels) THEN NoMatch
  ELSE LET q == j + Len(p.labels[a])
       IN OrElse(IF LitAt(t, j, p.labels[a]) THEN RefLabelWs(p, t, i, q, WsRun(t, q)) ELSE NoMatch,
                 RefLabels(p, t, i, j, a + 1))

\* [\s]* between the cue and the label, greedy
RECURSIVE RefCueWs(_, _, _, _, _)
RefCueWs(p, t, i, j, k) ==
  IF k < 0 THEN NoMatch
  ELSE OrElse(RefLabels(p, t, i, j + k, 1), RefCueWs(p, t, i, j, k - 1))

RECURSIVE RefCues(_, _, _, _)
RefCues(p, t, i, a) ==
  IF a > Len(p.cues) THEN NoMatch
  ELSE LET j == i + Len(p.cues[a])
       IN OrElse(IF LitAt(t, i, p.cues[a]) THEN RefCueWs(p, t, i, j, WsRun(t, j)) ELSE NoMatch,
                 RefCues(p, t, i, a + 1))

ReferenceMatchAt(p, t, i) ==
  IF p.cues = <<>> THEN RefLabels(p, t, i, i, 1) ELSE RefCues(p, t, i, 1)

RECURSIVE ReferenceFindIter(_, _, _)
\* the search goes on after the match m tried at pos
ReferenceFindNext(p, t, pos, m) ==
  IF Matched(m) THEN <<m>> \o ReferenceFindIter(p, t, m.e) ELSE ReferenceFindIter(p, t, pos + 1)

ReferenceFindIter(p, t, pos) ==
  IF pos >= Len(t) THEN <<>> ELSE ReferenceFindNext(p, t, pos, ReferenceMatchAt(p, t, pos))

\* pattern.finditer(block.text) for every pattern of reference_patterns and
\* every text a block may hold
ReferenceScan ==
  [t \in PoolTexts |->
     [pi \in 1..Len(ReferencePatterns) |-> ReferenceFindIter(ReferencePatterns[pi], t, 0)]]

\* --------------------------------------------------- reference helpers ----
_determine_reference_type(ref_text) ==
  IF HasKind(ref_text, {"tu", "figure", "fig."}) THEN "figure"
  ELSE IF HasKind(ref_text, {"biao", "table", "tab."}) THEN "table"
  ELSE "general"

\* the text holds the kinds ks one directly after the other
HasPhrase(t, ks) == IsSubSeq(ks, Kinds(t))

_calculate_reference_confidence(ref_text, context) ==
  LET ctx == IF 50 < CharLen(context) /\ CharLen(context) < 300 THEN 2 ELSE 0
      cue == IF \/ HasPhrase(ref_text, <<"ru", "tu">>)
                \/ HasPhrase(ref_text, <<"jian", "tu">>)
                \/ HasPhrase(ref_text, <<"see", "sp", "figure">>)
             THEN 2 ELSE 0
  IN Clamp01(5 + ctx + cue)

\* the same steps on doubles: the float _calculate_reference_confidence returns
_calculate_reference_confidence_float(ref_text, context) ==
  LET contexted == IF 50 < CharLen(context) /\ CharLen(context) < 300
                   THEN FAdd(FLit(5, 10), FLit(2, 10)) ELSE FLit(5, 10)
      cued == IF \/ HasPhrase(ref_text, <<"ru", "tu">>)
                 \/ HasPhrase(ref_text, <<"jian", "tu">>)
                 \/ HasPhrase(ref_text, <<"see", "sp", "figure">>)
              THEN FAdd(contexted, FLit(2, 10)) ELSE contexted
  IN FClamp01(cued)

\* the context with context_window characters on each side
_extract_context_FullWindow(cfg, text, start_pos, end_pos) ==
  LET context_start == Max(0, start_pos - cfg.context_window)
      context_end == Min(CharLen(text), end_pos + cfg.context_window)
  IN Strip(Slice(text, context_start, context_end))

_extract_context(cfg, text, start_pos, end_pos) ==
  LET context_start == Max(0, start_pos - (cfg.context_window \div 2))
      context_end == Min(CharLen(text), end_pos + (cfg.context_window \div 2))
  IN Strip(Slice(text, context_start, context_end))

\* the index of caption numbers: "{type}_{number}" and the bare number
CaptionNumbers(captions) ==
  {<<captions[i].caption_type, "_">> \o captions[i].number : i \in 1..Len(captions)}
    \cup {captions[i].number : i \in 1..Len(captions)}

\* the containment test applied in both directions
HasCaption_Symmetric(ref_number, caption_numbers) ==
  \/ ref_number \in caption_numbers
  \/ \E num \in caption_numbers : IsSubSeq(ref_number, num) \/ IsSubSeq(num, ref_number)

\* the membership test alone
HasCaption_Exact(ref_number, caption_numbers) == ref_number \in caption_numbers

\* the check that a caption corresponds to the reference number
HasCaption(ref_number, caption_numbers) ==
  ref_number \in caption_numbers \/ \E num \in caption_numbers : IsSubSeq(ref_number, num)

ReferenceOf(cfg, block, m, caption_numbers) ==
  LET ref_number == Number(block.text, m)
      context == _extract_context(cfg, block.text, Off(block.text, m.s), Off(block.text, m.e))
  IN IF ~HasCaption(ref_number, caption_numbers) THEN <<>>
     ELSE << [text |-> Group0(block.text, m),
              page_number |-> block.page_number,
              reference_type |-> _determine_reference_type(Group0(block.text, m)),
              reference_number |-> ref_number,
              surrounding_context |-> context,
              position |-> block.bbox,
              confidence |-> _calculate_reference_confidence(Group0(block.text, m), context),
              confidence_float |->
                _calculate_reference_confidence_float(Group0(block.text, m), context)] >>

RECURSIVE ReferencesOfMatches(_, _, _, _)
ReferencesOfMatches(cfg, block, ms, caption_numbers) ==
  IF ms = <<>> THEN <<>>
  ELSE ReferenceOf(cfg, block, Head(ms), caption_numbers)
       \o ReferencesOfMatches(cfg, block, Tail(ms), caption_numbers)

RECURSIVE ReferencesOfBlock(_, _, _, _)
ReferencesOfBlock(cfg, block, pi, caption_numbers) ==
  IF pi > Len(ReferencePatterns) THEN <<>>
  ELSE ReferencesOfMatches(cfg, block, ReferenceScan[block.text][pi], caption_numbers)
       \o ReferencesOfBlock(cfg, block, pi + 1, caption_numbers)

RECURSIVE ReferencesOfBlocks(_, _, _)
ReferencesOfBlocks(cfg, text_blocks, caption_numbers) ==
  IF text_blocks = <<>> THEN <<>>
  ELSE ReferencesOfBlock(cfg, Head(text_blocks), 1, caption_numbers)
       \o ReferencesOfBlocks(cfg, Tail(text_blocks), caption_numbers)

find_references(cfg, text_blocks, captions) ==
  ReferencesOfBlocks(cfg, text_blocks, CaptionNumbers(captions))

\* ------------------------------------------------------------ pairing ----
RECURSIVE GCD(_, _)
GCD(a, b) == IF b = 0 THEN a ELSE GCD(b, a % b)

\* the fraction num/den (den > 0) in lowest terms
Frac(num, den) ==
  LET g == GCD(IF num < 0 THEN 0 - num ELSE num, den)
  IN [num |-> num \div g, den |-> den \div g]

FracLeq(a, b) == a.num * b.den <= b.num * a.den
Tenths(k) == Frac(k, 10)

\* min(1.0, max(0.0, x)) for a fraction
FracClamp01(a) == IF a.num < 0 THEN Frac(0, 1) ELSE IF a.num > a.den THEN Frac(1, 1) ELSE a

\* matching by equal numbers only
_is_matching_caption_ExactOnly(caption, reference) ==
  caption.number = reference.reference_number

_is_matching_caption(caption, reference) ==
  \/ caption.number = reference.reference_number
  \/ /\ caption.caption_type = reference.reference_type
     /\ \/ IsSubSeq(caption.number, reference.reference_number)
        \/ IsSubSeq(reference.reference_number, caption.number)

RECURSIVE SumConfidence(_)
SumConfidence(references) ==
  IF references = <<>> THEN 0 ELSE Head(references).confidence + SumConfidence(Tail(references))

\* the three terms added up and returned as they are
_calculate_pairing_confidence_Sum(caption, references) ==
  IF references = <<>> THEN Tenths(3)
  ELSE LET n == Len(references)
           base_confidence == Min(8, 4 + n)
       IN Frac(base_confidence * n + SumConfidence(references) + caption.confidence * n, 10 * n)

\* the base without its cap of 0.8
_calculate_pairing_confidence_Uncapped(caption, references) ==
  IF references = <<>> THEN Tenths(3)
  ELSE LET n == Len(references)
           base_confidence == 4 + n
       IN FracClamp01(Frac(base_confidence * n + SumConfidence(references) + caption.confidence * n,
                           30 * n))

\* (base + avg + caption.confidence) / 3 with base and confidences in tenths
_calculate_pairing_confidence(caption, references) ==
  IF references = <<>> THEN Tenths(3)
  ELSE LET n == Len(references)
           base_confidence == Min(8, 4 + n)
       IN FracClamp01(Frac(base_confidence * n + SumConfidence(references) + caption.confidence * n,
                           30 * n))

\* acc + fs[lo] + ... + fs[hi] on doubles, one addition after the other from
\* the left: the sum that has taken in the first half goes on into the second
RECURSIVE FSum(_, _, _, _)
FSum(fs, lo, hi, acc) ==
  IF lo > hi THEN acc
  ELSE IF lo = hi THEN FAdd(acc, fs[lo])
  ELSE CHOOSE total \in {FSum(fs, (lo + hi) \div 2 + 1, hi, left) :
                           left \in {FSum(fs, lo, (lo + hi) \div 2, acc)}} : TRUE

\* sum(ref.confidence for ref in references) on doubles, from the left
SumFloat(references, acc) ==
  FSum([i \in 1..Len(references) |-> references[i].confidence_float], 1, Len(references), acc)

\* the same steps on doubles: the float _calculate_pairing_confidence returns
_calculate_pairing_confidence_float(caption, references) ==
  IF references = <<>> THEN FLit(3, 10)
  ELSE LET n == Len(references)
           base_confidence == FMin(FLit(8, 10), FAdd(FLit(4, 10), FMul(n, FLit(1, 10))))
           avg_ref_confidence == FDiv(SumFloat(references, FInt(0)), n)
       IN FClamp01(FDiv(FAdd(FAdd(base_confidence, avg_ref_confidence),
                             caption.confidence_float), 3))

\* caption_refs after the loop over the references: id(caption) -> references.
\* ids[i] is the identity of the object captions[i]
RECURSIVE AppendToMatching(_, _, _, _, _)
AppendToMatching(caption_refs, captions, ids, ref, i) ==
  IF i > Len(captions) THEN caption_refs
  ELSE IF _is_matching_caption(captions[i], ref)
       THEN AppendToMatching([caption_refs EXCEPT ![ids[i]] = Append(@, ref)],
                             captions, ids, ref, i + 1)
       ELSE AppendToMatching(caption_refs, captions, ids, ref, i + 1)

RECURSIVE GroupReferences(_, _, _, _)
GroupReferences(caption_refs, captions, ids, references) ==
  IF references = <<>> THEN caption_refs
  ELSE GroupReferences(AppendToMatching(caption_refs, captions, ids, Head(references), 1),
                       captions, ids, Tail(references))

CaptionInfo(caption) ==
  [text |-> caption.text, page_number |-> caption.page_number, position |-> caption.position,
   caption_type |-> caption.caption_type, number |-> caption.number,
   confidence |-> caption.confidence, confidence_float |-> caption.confidence_float]

ContextInfo(ref) ==
  [text |-> ref.text, page_number |-> ref.page_number, reference_type |-> ref.reference_type,
   reference_number |-> ref.reference_number, surrounding_text |-> ref.surrounding_context,
   confidence |-> ref.confidence, confidence_float |-> ref.confidence_float]

\* the caption line, then the header and the numbered contexts when there are any
_generate_combined_text(caption, contexts) ==
  <<<<"caption", caption.text>>>>
    \o (IF contexts = <<>> THEN <<>>
        ELSE <<<<"related">>>> \o [i \in 1..Len(contexts) |-> <<i, contexts[i].surrounding_text>>])

PairOf(caption, matched_refs) ==
  LET caption_info == CaptionInfo(caption)
      context_infos == [i \in 1..Len(matched_refs) |-> ContextInfo(matched_refs[i])]
  IN [caption |-> caption_info,
      contexts |-> context_infos,
      combined_text |-> _generate_combined_text(caption_info, context_infos),
      pairing_confidence |-> _calculate_pairing_confidence(caption, matched_refs),
      pairing_confidence_float |-> _calculate_pairing_confidence_float(caption, matched_refs)]

\* the pairs built from the entries of caption_refs: a caption no reference
\* matched has none
PairWithIds_MatchedOnly(captions, ids, references) ==
  LET idset == {ids[i] : i \in 1..Len(ids)}
      caption_refs == GroupReferences([o \in idset |-> <<>>], captions, ids, references)
  IN SelectSeq([i \in 1..Len(captions) |-> PairOf(captions[i], caption_refs[ids[i]])],
               LAMBDA pair : pair.contexts # <<>>)

\* caption_refs keyed by the number of the caption in place of id(caption)
PairWithIds_ByNumber(captions, ids, references) ==
  LET key == [i \in 1..Len(captions) |->
                ids[CHOOSE j \in 1..Len(captions) :
                      /\ captions[j].number = captions[i].number
                      /\ \A k \in 1..(j - 1) : captions[k].number # captions[i].number]]
      caption_refs == GroupReferences([o \in {key[i] : i \in 1..Len(captions)} |-> <<>>],
                                      captions, key, references)
  IN [i \in 1..Len(captions) |-> PairOf(captions[i], caption_refs[key[i]])]

\* pairing over caption objects with the identities ids
PairWithIds(captions, ids, references) ==
  LET idset == {ids[i] : i \in 1..Len(ids)}
      caption_refs == GroupReferences([o \in idset |-> <<>>], captions, ids, references)
  IN [i \in 1..Len(captions) |-> PairOf(captions[i], caption_refs[ids[i]])]

\* every candidate built by identify_captions is an object of its own
pair_captions_with_contexts(captions, references) ==
  PairWithIds(captions, [i \in 1..Len(captions) |-> i], references)

\* ---------------------------------------------------------- documents ----
MaxBlocks == 2

TextBlock(f, page_number, bbox) ==
  [text |-> f.text, page_number |-> page_number, bbox |-> bbox,
   font_size |-> f.font_size, is_bold |-> f.is_bold]

\* pages are read in order: a block is on the page of the block before it or
\* on the next one, the first block on page 1
RECURSIVE PageSeqs(_)
PageSeqs(n) ==
  IF n = 0 THEN {<<>>}
  ELSE IF n = 1 THEN {<<1>>}
  ELSE {Append(pg, pg[n - 1] + d) : pg \in PageSeqs(n - 1), d \in {0, 1}}

\* the block sequences extract_text_blocks may return
Documents ==
  UNION {{[i \in 1..n |-> TextBlock(f[i], pg[i], i)] : f \in [1..n -> Pool], pg \in PageSeqs(n)}
           : n \in 0..MaxBlocks}

\* (context_window, min_caption_length, confidence_threshold in tenths)
Config(cw, ml, th) ==
  [context_window |-> cw, min_caption_length |-> ml, confidence_threshold |-> th]

\* the defaults, another valid configuration, and one that
\* validate_processing_request reports
Configs == {Config(200, 5, 3), Config(100, 1, 7), Config(40, 0, 11)}

\* the filter with > in place of >=
filtered_pairs_Strict(prs, confidence_threshold) ==
  SelectSeq(prs, LAMBDA pair :
    FLess(FLit(confidence_threshold, 10), pair.pairing_confidence_float))

\* the filter with the comparison turned round
filtered_pairs_Below(prs, confidence_threshold) ==
  SelectSeq(prs, LAMBDA pair :
    FLeq(pair.pairing_confidence_float, FLit(confidence_threshold, 10)))

\* [pair for pair in pairs if pair.pairing_confidence >= confidence_threshold],
\* the threshold in tenths
filtered_pairs(prs, confidence_threshold) ==
  SelectSeq(prs, LAMBDA pair :
    FLeq(FLit(confidence_threshold, 10), pair.pairing_confidence_float))

\* what process_pdf returns for the blocks extract_text_blocks returned,
\* under the extractor's configuration
process_pdf(cfg, blocks) ==
  LET caps == identify_captions(cfg, blocks)
      refs == find_references(cfg, blocks, caps)
  IN filtered_pairs(pair_captions_with_contexts(caps, refs), cfg.confidence_threshold)

\* sum(pair.pairing_confidence for pair in pairs): 0 + p1 + p2 + ..., from
\* the left
SumPairing(prs) ==
  FSum([i \in 1..Len(prs) |-> prs[i].pairing_confidence_float], 1, Len(prs), FInt(0))

\* min(...) and max(...) over the pairing confidences
MinPairing(prs) ==
  CHOOSE m \in {prs[i].pairing_confidence_float : i \in 1..Len(prs)} :
    \A j \in 1..Len(prs) : FLeq(m, prs[j].pairing_confidence_float)

MaxPairing(prs) ==
  CHOOSE m \in {prs[i].pairing_confidence_float : i \in 1..Len(prs)} :
    \A j \in 1..Len(prs) : FLeq(prs[j].pairing_confidence_float, m)

\* sum(...) / len(pairs)
AvgPairing(prs) == FDiv(SumPairing(prs), Len(prs))

\* type_counts: the caption types met and how many pairs have each
TypeCounts(prs) ==
  [t \in {prs[i].caption.caption_type : i \in 1..Len(prs)} |->
     Cardinality({i \in 1..Len(prs) : prs[i].caption.caption_type = t})]

\* pages_covered is list(set(...)): every page once, in no stated order
get_processing_stats(prs) ==
  IF prs = <<>> THEN [total_pairs |-> 0]
  ELSE [total_pairs |-> Len(prs),
        types_distribution |-> TypeCounts(prs),
        pages_covered |-> {prs[i].caption.page_number : i \in 1..Len(prs)},
        confidence_stats |->
          [min |-> MinPairing(prs), max |-> MaxPairing(prs), avg |-> AvgPairing(prs)]]

\* ------------------------------------------------------------ requests ----
\* a float of a request: not a number, or a number of tenths
NaN == [nan |-> TRUE, tenths |-> 0]
Float(t) == [nan |-> FALSE, tenths |-> t]

\* x < y and x > y for floats: every comparison with NaN is false
FloatLess(x, y) == ~x.nan /\ ~y.nan /\ x.tenths < y.tenths
FloatGreater(x, y) == FloatLess(y, x)

\* ProcessingRequest(FileInfo(file_path, ...), ProcessingConfig(...))
ProcessingRequest(file_path, cw, ml, th) ==
  [file_info |-> [file_path |-> file_path],
   config |-> [context_window |-> cw, min_caption_length |-> ml, confidence_threshold |-> th]]

\* requests at and around every limit
Requests ==
  {ProcessingRequest(file_path, cw, ml, th) :
     file_path \in {"", "a.pdf"}, cw \in {0, 49, 50, 200}, ml \in {0, 1, 5},
     th \in {NaN} \cup {Float(t) : t \in -1..11}}

\* the messages, by the parameter they are about: 檔案路徑不能為空,
\* 信心度閾值必須在 0-1 之間, 上下文窗口不能小於 50, 最小 caption 長度不能小於 1
validate_processing_request(request) ==
  LET path == IF request.file_info.file_path = "" THEN <<"file_path">> ELSE <<>>
      threshold ==
        IF \/ FloatLess(request.config.confidence_threshold, Float(0))
           \/ FloatGreater(request.config.confidence_threshold, Float(10))
        THEN <<"confidence_threshold">> ELSE <<>>
      window == IF request.config.context_window < 50 THEN <<"context_window">> ELSE <<>>
      length == IF request.config.min_caption_length < 1 THEN <<"min_caption_length">> ELSE <<>>
      errors == path \o threshold \o window \o length
  IN <<Len(errors) = 0, errors>>

\* ----------------------------------------------------- the processor ----
VARIABLES
  pc,           \* where process_pdf stands
  config,       \* the extractor's context_window, min_caption_length, confidence_threshold
  text_blocks, captions, references, pairs,   \* the locals of process_pdf
  result,       \* what process_pdf returned
  error,        \* what extract_text_blocks raised and what process_pdf raised
  earlier,      \* an earlier call of process_pdf on this processor, for comparison
  stats,        \* the list get_processing_stats was given and what it returned
  validation,   \* the request validate_processing_request was given and what it returned
  call          \* a helper of the extractor called on its own: arguments and what it returned

vars ==
  <<pc, config, text_blocks, captions, references, pairs, result, error, earlier, stats,
    validation, call>>

NoConfig == Config(0, 0, 0)

\* what fitz.open, load_page, get_text and the dict accesses may raise
Errors == {"FileNotFoundError", "FileDataError", "KeyError"}

NoError == [extraction |-> "none", caller |-> "none"]

NoRun == [seen |-> FALSE, text_blocks |-> <<>>, result |-> <<>>, between |-> FALSE]

NoCall == [name |-> "none", args |-> <<>>, returned |-> <<>>]

NoValidation == [seen |-> FALSE, request |-> ProcessingRequest("", 0, 0, Float(0)), returned |-> <<TRUE, <<>>>>]

NoStats == [seen |-> FALSE, pairs |-> <<>>, report |-> [total_pairs |-> 0]]

\* the caller gathers the pairs of at most this many documents alike
MaxBatch == 5

\* the pairs of k documents for which process_pdf returned prs
RECURSIVE Batch(_, _)
Batch(prs, k) == IF k = 0 THEN <<>> ELSE prs \o Batch(prs, k - 1)

\* the blocks of a later call have at most this many blocks, unless they
\* are those of the call remembered
MaxAgainBlocks == 1

\* the documents whose calls are remembered: the caption block of Scenario 1
\* and, on the same page, a block that mentions it
Watched ==
  {<<TextBlock(Fragment(Scenario1Text, 12, TRUE), 1, 1), TextBlock(f, 1, 2)>> :
     f \in {g \in Pool : g.font_size = 10}}

Again(run) ==
  {run.text_blocks} \cup {doc \in Documents : Len(doc) <= MaxAgainBlocks}

Init ==
  /\ pc = "new"
  /\ config = NoConfig
  /\ text_blocks = <<>>
  /\ captions = <<>>
  /\ references = <<>>
  /\ pairs = <<>>
  /\ result = <<>>
  /\ error = NoError
  /\ earlier = NoRun
  /\ stats = NoStats
  /\ validation = NoValidation
  /\ call = NoCall

\* PDFCaptionContextProcessor.__init__ / CaptionExtractor.__init__
Construct ==
  /\ pc = "new"
  /\ \E cfg \in Configs : config' = cfg
  /\ pc' = "ready"
  /\ UNCHANGED <<text_blocks, captions, references, pairs, result, error, earlier, stats, validation,
                 call>>

\* process_pdf, step 1
ExtractTextBlocks ==
  /\ pc = "ready"
  /\ \E doc \in (IF earlier.seen THEN Again(earlier) ELSE Documents) : text_blocks' = doc
  /\ pc' = "extracted"
  /\ UNCHANGED <<config, captions, references, pairs, result, error, earlier, stats, validation,
                 call>>

\* an except clause that logs the error and returns an empty list
ExtractRaises_Swallowed ==
  /\ pc = "ready"
  /\ \E e \in Errors : error' = [extraction |-> e, caller |-> "none"]
  /\ pc' = "done"
  /\ UNCHANGED <<config, text_blocks, captions, references, pairs, result, earlier, stats, validation,
                 call>>

\* process_pdf, step 1 when extract_text_blocks raises: its except clause
\* logs and re-raises, and so does the except clause of process_pdf
ExtractRaises ==
  /\ pc = "ready"
  /\ \E e \in Errors : error' = [extraction |-> e, caller |-> e]
  /\ pc' = "raised"
  /\ UNCHANGED <<config, text_blocks, captions, references, pairs, result, earlier, stats, validation,
                 call>>

\* step 2 without the sort: the candidates as deduplication leaves them
IdentifyCaptions_Unsorted ==
  /\ pc = "extracted"
  /\ captions' = _deduplicate_captions(RawCandidates(config, text_blocks))
  /\ pc' = "identified"
  /\ UNCHANGED <<config, text_blocks, references, pairs, result, error, earlier, stats, validation,
                 call>>

\* process_pdf, step 2
IdentifyCaptions ==
  /\ pc = "extracted"
  /\ captions' = identify_captions(config, text_blocks)
  /\ pc' = "identified"
  /\ UNCHANGED <<config, text_blocks, references, pairs, result, error, earlier, stats, validation,
                 call>>

\* process_pdf, step 3
FindReferences ==
  /\ pc = "identified"
  /\ references' = find_references(config, text_blocks, captions)
  /\ pc' = "referenced"
  /\ UNCHANGED <<config, text_blocks, captions, pairs, result, error, earlier, stats, validation,
                 call>>

\* step 4 taking the references out of the list as it groups them
PairCaptions_Consuming ==
  /\ pc = "referenced"
  /\ pairs' = pair_captions_with_contexts(captions, references)
  /\ references' = <<>>
  /\ pc' = "paired"
  /\ UNCHANGED <<config, text_blocks, captions, result, error, earlier, stats, validation, call>>

\* process_pdf, step 4
PairCaptions ==
  /\ pc = "referenced"
  /\ pairs' = pair_captions_with_contexts(captions, references)
  /\ pc' = "paired"
  /\ UNCHANGED <<config, text_blocks, captions, references, result, error, earlier, stats, validation,
                 call>>

\* process_pdf, the filter and the return
FilterPairs ==
  /\ pc = "paired"
  /\ result' = filtered_pairs(pairs, config.confidence_threshold)
  /\ pc' = "done"
  /\ UNCHANGED <<config, text_blocks, captions, references, pairs, error, earlier, stats, validation,
                 call>>

\* the call remembered once this one is over
Remembered ==
  IF earlier.seen
  THEN {[earlier EXCEPT !.between = @ \/ (pc = "done" /\ text_blocks # earlier.text_blocks)]}
  ELSE {earlier} \cup
       (IF pc = "done" /\ text_blocks \in Watched
        THEN {[seen |-> TRUE, text_blocks |-> text_blocks, result |-> result, between |-> FALSE]}
        ELSE {})

\* a reconfiguration of the extractor between two calls
CallAgain_Reconfigured ==
  /\ pc \in {"done", "raised"}
  /\ pc' = "ready"
  /\ \E cfg \in Configs : config' = cfg
  /\ text_blocks' = <<>> /\ captions' = <<>> /\ references' = <<>> /\ pairs' = <<>>
  /\ result' = <<>>
  /\ error' = NoError
  /\ earlier' \in Remembered
  /\ stats' = NoStats
  /\ UNCHANGED <<validation, call>>

\* process_pdf is called once more on the same processor, after it returned
\* or raised: the call has locals of its own, the extractor is the same
CallAgain ==
  /\ pc \in {"done", "raised"}
  /\ pc' = "ready"
  /\ text_blocks' = <<>> /\ captions' = <<>> /\ references' = <<>> /\ pairs' = <<>>
  /\ result' = <<>>
  /\ error' = NoError
  /\ earlier' \in Remembered
  /\ stats' = NoStats
  /\ UNCHANGED <<config, validation, call>>

\* get_processing_stats, called with the pairs process_pdf returned for one
\* document or for several documents alike
GetProcessingStats ==
  /\ pc = "done"
  /\ ~stats.seen
  /\ \E k \in 1..MaxBatch :
       stats' = [seen |-> TRUE, pairs |-> Batch(result, k),
                 report |-> get_processing_stats(Batch(result, k))]
  /\ UNCHANGED <<pc, config, text_blocks, captions, references, pairs, result, error, earlier,
                 validation, call>>

\* one call of process_pdf on a new processor, and the statistics of what
\* it returned
Next ==
  \/ Construct
  \/ ExtractTextBlocks
  \/ ExtractRaises
  \/ IdentifyCaptions
  \/ FindReferences
  \/ PairCaptions
  \/ FilterPairs
  \/ GetProcessingStats

Spec == Init /\ [][Next]_vars

\* validate_processing_request on a request of the caller
ValidateProcessingRequest ==
  /\ ~validation.seen
  /\ \E request \in Requests :
       validation' = [seen |-> TRUE, request |-> request,
                      returned |-> validate_processing_request(request)]
  /\ UNCHANGED <<pc, config, text_blocks, captions, references, pairs, result, error, earlier,
                 stats, call>>

NextValidate == ValidateProcessingRequest

SpecValidate == Init /\ [][NextValidate]_vars

\* the texts handed to _determine_caption_type: up to MaxTypeTokens words
\* and characters, the keywords of every branch among them
MaxTypeTokens == 3
TypeKinds ==
  {"tu", "biao", "pian", "xiang", "ge", "figure", "figure_i", "table", "fig.", "tab.", "chart",
   "x", "1", "sp"}
TypeTexts ==
  UNION {[1..n -> {T(k) : k \in TypeKinds}] : n \in 0..MaxTypeTokens}

\* _determine_caption_type called on a text
DetermineCaptionType ==
  /\ call = NoCall
  /\ \E caption_text \in TypeTexts :
       call' = [name |-> "_determine_caption_type", args |-> [caption_text |-> caption_text],
                returned |-> _determine_caption_type(caption_text)]
  /\ UNCHANGED <<pc, config, text_blocks, captions, references, pairs, result, error, earlier,
                 stats, validation>>

\* the blocks and matched texts handed to _calculate_caption_confidence:
\* font sizes and lengths at and around every limit, white space around
\* the text or none
FontSizes == {7, 8, 12, 13}
TextLengths == {9, 10, 11, 99, 100, 101, 200, 201}
MatchTexts ==
  {l \o <<X(n)>> \o r : l \in {<<>>, <<T("sp")>>}, n \in TextLengths, r \in {<<>>, <<T("nl")>>}}

\* _calculate_caption_confidence called on a block and a matched text
CalculateCaptionConfidence ==
  /\ call = NoCall
  /\ \E font_size \in FontSizes, is_bold \in BOOLEAN, match_text \in MatchTexts :
       LET block == TextBlock(Fragment(match_text, font_size, is_bold), 1, 1)
       IN call' = [name |-> "_calculate_caption_confidence",
                   args |-> [block |-> block, match_text |-> match_text],
                   returned |-> [confidence |-> _calculate_caption_confidence(block, match_text),
                                 confidence_float |->
                                   _calculate_caption_confidence_float(block, match_text)]]
  /\ UNCHANGED <<pc, config, text_blocks, captions, references, pairs, result, error, earlier,
                 stats, validation>>

\* process_pdf is straight-line code: once extract_text_blocks has returned,
\* each of the following statements is executed
RunStage ==
  \/ pc = "extracted" /\ pc' = "identified"
  \/ pc = "identified" /\ pc' = "referenced"
  \/ pc = "referenced" /\ pc' = "paired"
  \/ pc = "paired" /\ pc' = "done"

SpecFair == Spec /\ WF_pc(RunStage)

\* the helpers called on their own, as the unit tests call them
NextHelpers == DetermineCaptionType \/ CalculateCaptionConfidence

SpecHelpers == Init /\ [][NextHelpers]_vars

\* any number of calls of process_pdf on one processor
NextRepeat ==
  \/ Next
  \/ CallAgain

SpecRepeat == Init /\ [][NextRepeat]_vars

\* ------------------------------------------------------------- claims ----
\* the locals of process_pdf that hold their value
Identified == pc \in {"identified", "referenced", "paired", "done"}
Referenced == pc \in {"referenced", "paired", "done"}
Paired == pc \in {"paired", "done"}

\* the known identifiers of the caption list: "{type}_{number}" and the number
Known ==
  {<<captions[i].caption_type, "_">> \o captions[i].number : i \in 1..Len(captions)}
    \cup {captions[i].number : i \in 1..Len(captions)}

\* the matches of the reference patterns in the blocks:
\* <<block index, pattern index, match index>>
Mentions ==
  UNION {UNION {{<<b, pi, k>> : k \in 1..Len(ReferenceScan[text_blocks[b].text][pi])}
                  : pi \in 1..Len(ReferencePatterns)}
           : b \in 1..Len(text_blocks)}

MentionMatch(x) == ReferenceScan[text_blocks[x[1]].text][x[2]][x[3]]
MentionNumber(x) == Number(text_blocks[x[1]].text, MentionMatch(x))

\* find_references returned the mention
Reported(x) ==
  \E i \in 1..Len(references) :
    /\ references[i].position = text_blocks[x[1]].bbox
    /\ references[i].text = Group0(text_blocks[x[1]].text, MentionMatch(x))
    /\ references[i].reference_number = MentionNumber(x)

\* the block of Scenario 1: bold, font size 12, page 1
Scenario1Block(bbox) == TextBlock(Fragment(Scenario1Text, 12, TRUE), 1, bbox)

\* C1: pair_captions_with_contexts returns exactly one pair per entry of the
\* caption list, in the order of that list: pair i carries the title, page,
\* type, number and confidence of caption i, whether a reference matches it
\* or not
C1_PairingComplete ==
  Paired =>
    /\ Len(pairs) = Len(captions)
    /\ \A i \in 1..Len(captions) :
         /\ pairs[i].caption.text = captions[i].text
         /\ pairs[i].caption.page_number = captions[i].page_number
         /\ pairs[i].caption.caption_type = captions[i].caption_type
         /\ pairs[i].caption.number = captions[i].number
         /\ pairs[i].caption.confidence = captions[i].confidence

\* two captions or more, one with references and one without
C1_Witness ==
  /\ pc = "paired"
  /\ Len(captions) >= 2
  /\ \E i \in 1..Len(pairs) : pairs[i].contexts = <<>>
  /\ \E i \in 1..Len(pairs) : pairs[i].contexts # <<>>

\* C2: in the list identify_captions returns, no two candidates share the key
\* (page, number, first 50 characters of the title)
C2_DedupKeysUnique ==
  Identified =>
    \A i, j \in 1..Len(captions) :
      i # j => <<captions[i].page_number, captions[i].number, TakeChars(captions[i].text, 50)>>
                 # <<captions[j].page_number, captions[j].number, TakeChars(captions[j].text, 50)>>

\* Scenario 5: the patterns match "表 2.1：統計資料表" more than once and one
\* candidate is left
C2_Witness ==
  /\ pc = "identified"
  /\ Len(text_blocks) = 1
  /\ text_blocks[1].text = Scenario5Text
  /\ Len(RawCandidates(config, text_blocks)) >= 2
  /\ Len(captions) = 1

\* C3: every caption confidence, every reference confidence and every pairing
\* confidence lies in [0, 1]
C3_ConfidenceBounds ==
  /\ Identified => \A i \in 1..Len(captions) :
                     0 <= captions[i].confidence /\ captions[i].confidence <= 10
  /\ Referenced => \A i \in 1..Len(references) :
                     0 <= references[i].confidence /\ references[i].confidence <= 10
  /\ Paired => \A i \in 1..Len(pairs) :
                 /\ 0 <= pairs[i].pairing_confidence.num
                 /\ pairs[i].pairing_confidence.num <= pairs[i].pairing_confidence.den

\* a pair of a caption of the highest confidence, 0.9, with a reference of the
\* highest confidence, 0.9
C3_Witness ==
  /\ pc = "paired"
  /\ \E i \in 1..Len(pairs) :
       /\ pairs[i].caption.confidence = 9
       /\ pairs[i].contexts # <<>>
       /\ pairs[i].contexts[1].confidence = 9

\* C4: the number of every reference find_references returns equals, or is a
\* substring of, a known identifier of the caption list passed in; with an
\* empty caption list no reference is returned
C4_ReferencesKnown ==
  Referenced =>
    /\ \A i \in 1..Len(references) :
         \E num \in Known : IsSubSeq(references[i].reference_number, num)
    /\ captions = <<>> => references = <<>>

\* references were returned and a mention of an unknown number was left out
C4_Witness ==
  /\ pc = "referenced"
  /\ references # <<>>
  /\ \E x \in Mentions : ~Reported(x)

\* the rules of validate_processing_request for the three parameters
ValidConfig(cfg) ==
  /\ ~(cfg.confidence_threshold < 0 \/ cfg.confidence_threshold > 10)
  /\ ~(cfg.context_window < 50)
  /\ ~(cfg.min_caption_length < 1)

\* C5: no stage of the pipeline runs under a configuration with a threshold
\* outside [0, 1], a context window below 50 or a minimum caption length
\* below 1: the constructor rejects it
C5_InvalidConfigRejected ==
  pc \in {"extracted", "identified", "referenced", "paired", "done"} => ValidConfig(config)

\* the block list of Scenario 1
Scenario1Document == text_blocks = <<Scenario1Block(1)>>

\* C6 as stated: the Scenario 1 block yields exactly one candidate, a figure
\* numbered "1" whose title starts with "測試圖片說明", with confidence >= 0.8
C6_Scenario1AtLeast08 ==
  (Identified /\ Scenario1Document) =>
    /\ Len(captions) = 1
    /\ captions[1].caption_type = "figure"
    /\ captions[1].number = <<"1">>
    /\ TakeChars(captions[1].text, 6) = <<X(2), T("tu"), T("pian"), X(2)>>
    /\ captions[1].confidence >= 8

\* C6: the Scenario 1 block yields exactly one candidate, a figure numbered
\* "1" whose title is "測試圖片說明", with confidence 0.7: the base 0.5 and 0.2
\* for the bold font; the matched text is 10 characters long, which earns no
\* length bonus
C6_Scenario1Confidence ==
  (Identified /\ Scenario1Document) =>
    /\ Len(captions) = 1
    /\ captions[1].caption_type = "figure"
    /\ captions[1].number = <<"1">>
    /\ captions[1].text = <<X(2), T("tu"), T("pian"), X(2)>>
    /\ captions[1].confidence = 7

C6_Witness ==
  /\ pc = "identified"
  /\ Scenario1Document
  /\ captions # <<>>
  /\ CharLen(Strip(Group0(text_blocks[1].text, CaptionScan[text_blocks[1].text][1][1]))) = 10

\* a caption block numbered "1" and then a block with the one mention
\* "如圖 1 所示"
OneMentionDocument ==
  /\ Len(text_blocks) = 2
  /\ text_blocks[1] = Scenario1Block(1)
  /\ text_blocks[2].text \in {Scenario2Text, TestRefText}

\* C7: with a known caption numbered "1", a block with one mention of the form
\* "如圖 1 所示" makes find_references return exactly one reference, numbered
\* "1", of type figure, whose text contains "如圖 1 所示"
C7_OneReferencePerMention ==
  (Referenced /\ OneMentionDocument /\ <<"1">> \in Known) =>
    /\ Len(references) = 1
    /\ references[1].reference_number = <<"1">>
    /\ references[1].reference_type = "figure"
    /\ HasPhrase(references[1].text, <<"ru", "tu", "sp", "1", "sp", "suoshi">>)

\* C8 as stated: find_references returns a mention exactly when its number is
\* a known identifier, or a substring of one, or holds one as a substring
C8_SymmetricContainment ==
  Referenced =>
    \A x \in Mentions :
      Reported(x) <=> \E num \in Known : \/ IsSubSeq(MentionNumber(x), num)
                                         \/ IsSubSeq(num, MentionNumber(x))

\* C8: find_references returns a mention exactly when its number is a known
\* identifier or a substring of one; a known identifier that is a substring
\* of the number does not make it accepted
C8_OneWayContainment ==
  Referenced =>
    \A x \in Mentions :
      Reported(x) <=> \E num \in Known : IsSubSeq(MentionNumber(x), num)

\* the only known caption number is "1" and a mention of "1.1" is left out
C8_Witness ==
  /\ pc = "referenced"
  /\ captions # <<>>
  /\ \A i \in 1..Len(captions) : captions[i].number = <<"1">>
  /\ \E x \in Mentions : MentionNumber(x) = <<"1", ".", "1">> /\ ~Reported(x)

\* the blocks of Scenario 1 and Scenario 2 on one page
Scenario3Document ==
  text_blocks = <<Scenario1Block(1), TextBlock(Fragment(Scenario2Text, 12, FALSE), 1, 2)>>

\* C9: the blocks of Scenario 1 and Scenario 2 yield one pair, for caption
\* "1", with one context, and its confidence is (0.5 + refConfidence + 0.8) / 3
C9_Scenario3Confidence ==
  (Paired /\ Scenario3Document) =>
    /\ Len(pairs) = 1
    /\ pairs[1].caption.number = <<"1">>
    /\ Len(pairs[1].contexts) = 1
    /\ pairs[1].pairing_confidence.num * 30
         = (5 + pairs[1].contexts[1].confidence + 8) * pairs[1].pairing_confidence.den

\* the sum of base, mean reference confidence and caption confidence of a
\* pair, as a number of 30n-ths for its n contexts
PairingTerms(pair) ==
  LET n == Len(pair.contexts)
  IN (IF 4 + n < 8 THEN 4 + n ELSE 8) * n + SumConfidence(pair.contexts) + pair.caption.confidence * n

\* C10: the pairing confidence is 0.3 for a caption without grouped references
\* and clamp01((min(0.8, 0.4 + 0.1 n) + mean reference confidence + caption
\* confidence) / 3) for n >= 1 grouped references
C10_PairingConfidence ==
  Paired =>
    \A i \in 1..Len(pairs) :
      LET n == Len(pairs[i].contexts)
          c == pairs[i].pairing_confidence
      IN IF n = 0 THEN c.num * 10 = 3 * c.den
         ELSE IF PairingTerms(pairs[i]) > 30 * n THEN c.num = c.den
         ELSE c.num * 30 * n = PairingTerms(pairs[i]) * c.den

\* a pair with five references or more, where the base stops at 0.8, and a
\* pair without references
C10_Witness ==
  /\ pc = "paired"
  /\ \E i \in 1..Len(pairs) : Len(pairs[i].contexts) >= 5
  /\ \E i \in 1..Len(pairs) : pairs[i].contexts = <<>>

\* the positions of the pairs whose pairing confidence is not below the
\* threshold (in tenths)
AtOrAbove(prs, confidence_threshold) ==
  {i \in 1..Len(prs) :
     ~FLess(prs[i].pairing_confidence_float, FLit(confidence_threshold, 10))}

\* the k-th smallest element of a set of positions
Nth(S, k) == CHOOSE i \in S : Cardinality({j \in S : j <= i}) = k

\* C11: process_pdf returns exactly the pairs of the pairing stage whose
\* pairing confidence is greater than or equal to the configured threshold,
\* in their original order
C11_ThresholdFilter ==
  pc = "done" =>
    LET keep == AtOrAbove(pairs, config.confidence_threshold)
    IN /\ Len(result) = Cardinality(keep)
       /\ \A k \in 1..Len(result) : result[k] = pairs[Nth(keep, k)]

\* a finished run that drops one pair and keeps a later one
C11_Witness ==
  /\ pc = "done"
  /\ \E i, j \in 1..Len(pairs) :
       /\ i < j
       /\ i \notin AtOrAbove(pairs, config.confidence_threshold)
       /\ j \in AtOrAbove(pairs, config.confidence_threshold)

\* the thresholds compared, in tenths: 0.0 to 1.1
Thresholds == 0..11

WithThreshold(cfg, t) == [cfg EXCEPT !.confidence_threshold = t]

\* a is b with some elements left out
RECURSIVE IsSubList(_, _)
IsSubList(a, b) ==
  IF a = <<>> THEN TRUE
  ELSE IF b = <<>> THEN FALSE
  ELSE IF a[1] = b[1] THEN IsSubList(Tail(a), Tail(b))
  ELSE IsSubList(a, Tail(b))

\* the output of process_pdf on the run's blocks at every threshold, the
\* configuration otherwise the run's
Outputs ==
  {<<t, process_pdf(WithThreshold(config, t), text_blocks)>> : t \in Thresholds}

\* C12: for the same blocks and an otherwise equal configuration, the
\* output at threshold t2 is a sub-list of the output at any threshold
\* t1 <= t2, so raising the threshold never returns more pairs; the run's
\* own result is the output at its own threshold
C12_ThresholdMonotone ==
  pc = "done" =>
    LET outs == Outputs
    IN /\ <<config.confidence_threshold, result>> \in outs
       /\ \A o1, o2 \in outs :
            o1[1] <= o2[1] => IsSubList(o2[2], o1[2]) /\ Len(o2[2]) <= Len(o1[2])

\* a finished run that returned some pairs, fewer than a lower threshold
\* returns and more than a higher one
C12_Witness ==
  /\ pc = "done"
  /\ result # <<>>
  /\ \E o \in Outputs : o[1] < config.confidence_threshold /\ Len(o[2]) > Len(result)
  /\ \E o \in Outputs : o[1] > config.confidence_threshold /\ Len(o[2]) < Len(result)

\* the call in progress has the blocks of the call remembered
SameBlocksAgain == pc = "done" /\ earlier.seen /\ text_blocks = earlier.text_blocks

C14_ExtractionErrorPropagates ==
  /\ pc = "raised" =>
       /\ error.extraction \in Errors
       /\ error.caller = error.extraction
       /\ captions = <<>> /\ references = <<>> /\ pairs = <<>>
       /\ result = <<>>
  /\ pc = "done" =>
       /\ error = NoError
       /\ result = process_pdf(config, text_blocks)
  /\ pc # "done" => result = <<>>
  /\ pc # "raised" => error = NoError

\* a call that raised, on a processor that returned pairs for an earlier
\* call
C14_Witness ==
  /\ pc = "raised"
  /\ error.caller \in Errors
  /\ earlier.seen
  /\ earlier.result # <<>>

\* how often x occurs in the sequence
Count(seq, x) == Cardinality({i \in 1..Len(seq) : seq[i] = x})

\* C15: identify_captions returns the deduplicated candidates, ordered by
\* page and, within a page, by the number compared as a string: "10" comes
\* before "2"
C15_SortedByPageThenNumberString ==
  Identified =>
    LET unique_captions == _deduplicate_captions(RawCandidates(config, text_blocks))
    IN /\ Len(captions) = Len(unique_captions)
       /\ \A i \in 1..Len(captions) : Count(captions, captions[i]) = Count(unique_captions, captions[i])
       /\ \A i, j \in 1..Len(captions) :
            i < j =>
              /\ captions[i].page_number <= captions[j].page_number
              /\ captions[i].page_number = captions[j].page_number
                   => ~StrLess(captions[j].number, captions[i].number)

\* the captions "10" and "2" of one page, found in the order 2, 10 and
\* returned in the order 10, 2
C15_Witness ==
  /\ pc = "identified"
  /\ \E i, j \in 1..Len(captions) :
       /\ i < j
       /\ captions[i].page_number = captions[j].page_number
       /\ captions[i].number = <<"1", "0">>
       /\ captions[j].number = <<"2">>
       /\ captions[j].position <= captions[i].position

\* the label a caption match starts with: what stands in front of the
\* white space or the digits of the number
LabelOf(t, m) ==
  LET stop == CHOOSE j \in (m.s + 1)..(m.ns + 1) :
                /\ IsSpace(t[j]) \/ IsDigit(t[j])
                /\ \A k \in (m.s + 1)..(j - 1) : ~(IsSpace(t[k]) \/ IsDigit(t[k]))
  IN Kinds(SubSeq(t, m.s + 1, stop - 1))

\* the type each label stands for: 圖 and Figure figure, 表 and Table table,
\* 圖表 chart
LabelType(label) ==
  CASE label \in {<<"tu">>, <<"figure">>, <<"figure_i">>} -> "figure"
    [] label \in {<<"biao">>, <<"table">>} -> "table"
    [] label = <<"tu", "biao">> -> "chart"
    [] OTHER -> "other"

\* the matches of the caption patterns in the blocks, as (block, match)
CaptionMatches ==
  {<<text_blocks[b], CaptionScan[text_blocks[b].text][pi][k]>> :
     <<b, pi, k>> \in {x \in (1..Len(text_blocks)) \X (1..Len(CaptionPatterns)) \X (1..4) :
                        x[3] <= Len(CaptionScan[text_blocks[x[1]].text][x[2]])}}

\* C16: the type of a caption follows its label, whatever follows the
\* label: 圖 and Figure give figure, 表 and Table give table, 圖表 gives chart
C16_TypeFollowsLabel ==
  Identified =>
    \A bm \in CaptionMatches :
      LET c == CandidateOf(config, bm[1], bm[2])
          label == LabelOf(bm[1].text, bm[2])
      IN (c # <<>> /\ LabelType(label) # "other" /\ \E i \in 1..Len(captions) : captions[i] = c[1])
           => c[1].caption_type = LabelType(label)

RECURSIVE SumOver(_, _)
SumOver(f, types) ==
  IF types = {} THEN 0
  ELSE LET t == CHOOSE u \in types : TRUE
       IN f[t] + SumOver(f, types \ {t})

SumCounts(f) == SumOver(f, DOMAIN f)

\* C18: for a non-empty list the statistics hold its length, the number of
\* pairs of each caption type (summing to the length), the set of caption
\* pages, and the least, greatest and average pairing confidence with
\* min <= avg <= max; for an empty list total_pairs is 0
C18_ProcessingStats ==
  stats.seen =>
    LET prs == stats.pairs
        report == stats.report
        at == 1..Len(prs)
    IN IF prs = <<>> THEN report.total_pairs = 0
       ELSE /\ report.total_pairs = Len(prs)
            /\ DOMAIN report.types_distribution = {prs[i].caption.caption_type : i \in at}
            /\ \A t \in DOMAIN report.types_distribution :
                 report.types_distribution[t]
                   = Cardinality({i \in at : prs[i].caption.caption_type = t})
            /\ SumCounts(report.types_distribution) = report.total_pairs
            /\ report.pages_covered = {prs[i].caption.page_number : i \in at}
            /\ \E i \in at : report.confidence_stats.min = prs[i].pairing_confidence_float
            /\ \E i \in at : report.confidence_stats.max = prs[i].pairing_confidence_float
            /\ \A i \in at :
                 /\ FLeq(report.confidence_stats.min, prs[i].pairing_confidence_float)
                 /\ FLeq(prs[i].pairing_confidence_float, report.confidence_stats.max)
            /\ FLeq(report.confidence_stats.min, report.confidence_stats.avg)
            /\ FLeq(report.confidence_stats.avg, report.confidence_stats.max)

\* the rules a request violates, by parameter
Violated(request) ==
  {r \in {"file_path", "confidence_threshold", "context_window", "min_caption_length"} :
     \/ r = "file_path" /\ request.file_info.file_path = ""
     \/ r = "confidence_threshold" /\
          ~(/\ ~request.config.confidence_threshold.nan
            /\ 0 <= request.config.confidence_threshold.tenths
            /\ request.config.confidence_threshold.tenths <= 10)
     \/ r = "context_window" /\ ~(request.config.context_window >= 50)
     \/ r = "min_caption_length" /\ ~(request.config.min_caption_length >= 1)}

\* C19: validate_processing_request returns (True, []) exactly when the
\* path is not empty, 0 <= confidence_threshold <= 1, context_window >= 50
\* and min_caption_length >= 1, and otherwise False with one message for
\* each rule violated
C19_ValidationReportsEveryViolation ==
  validation.seen =>
    LET valid == validation.returned[1]
        errors == validation.returned[2]
    IN /\ valid <=> Violated(validation.request) = {}
       /\ valid => errors = <<>>
       /\ Len(errors) = Cardinality(Violated(validation.request))
       /\ {errors[i] : i \in 1..Len(errors)} = Violated(validation.request)

\* the references of the list that match a caption, in the order of the list
MatchingReferences(caption, refs) ==
  SelectSeq(refs,
            LAMBDA r : \/ r.reference_number = caption.number
                       \/ /\ caption.caption_type = r.reference_type
                          /\ \/ IsSubSeq(caption.number, r.reference_number)
                             \/ IsSubSeq(r.reference_number, caption.number))

\* C20: the contexts of every caption's pair are exactly the references
\* whose number equals the caption's, or whose type is the caption's and
\* whose number contains or is contained in the caption's, in the order of
\* the reference list; a reference that matches several captions is
\* attached to each
C20_ContextsAreMatchingReferences ==
  Paired =>
    /\ Len(pairs) = Len(captions)
    /\ \A i \in 1..Len(captions) :
         LET matched == MatchingReferences(captions[i], references)
         IN pairs[i].contexts = [k \in 1..Len(matched) |-> ContextInfo(matched[k])]

\* one reference attached to two captions, to one of them by containment
\* only, and a caption with two contexts
C20_Witness ==
  /\ Paired
  /\ \E i, j \in 1..Len(pairs) :
       /\ i # j
       /\ captions[i].number # captions[j].number
       /\ \E k \in 1..Len(pairs[i].contexts), l \in 1..Len(pairs[j].contexts) :
            /\ pairs[i].contexts[k] = pairs[j].contexts[l]
            /\ pairs[i].contexts[k].reference_number = captions[i].number
  /\ \E i \in 1..Len(pairs) : Len(pairs[i].contexts) >= 2

\* the positions of a candidate list at which a key (page, number,
\* title[:50]) is met for the first time
FirstOfKey(raw) ==
  {i \in 1..Len(raw) :
     \A j \in 1..(i - 1) :
       <<raw[j].page_number, raw[j].number, TakeChars(raw[j].text, 50)>>
         # <<raw[i].page_number, raw[i].number, TakeChars(raw[i].text, 50)>>}

\* C21: _deduplicate_captions returns the first candidate seen for each key
\* (page, number, title[:50]), in input order and with every field as it
\* was, and applied to its own output it changes nothing
C21_DedupKeepsFirst ==
  Identified =>
    LET raw == RawCandidates(config, text_blocks)
        deduplicated == _deduplicate_captions(raw)
    IN /\ Len(deduplicated) = Cardinality(FirstOfKey(raw))
       /\ \A k \in 1..Len(deduplicated) : deduplicated[k] = raw[Nth(FirstOfKey(raw), k)]
       /\ _deduplicate_captions(deduplicated) = deduplicated

\* a later candidate with the key of an earlier one and another title or
\* confidence is dropped, and a candidate after it is kept
C21_Witness ==
  /\ pc = "identified"
  /\ LET raw == RawCandidates(config, text_blocks)
     IN \E i, j, k \in 1..Len(raw) :
          /\ i < j /\ j < k
          /\ i \in FirstOfKey(raw) /\ j \notin FirstOfKey(raw) /\ k \in FirstOfKey(raw)
          /\ raw[i].page_number = raw[j].page_number /\ raw[i].number = raw[j].number
          /\ TakeChars(raw[i].text, 50) = TakeChars(raw[j].text, 50)
          /\ raw[i] # raw[j]

\* some keyword of the list is a substring of the text
ContainsAny(caption_text, words) ==
  \E w \in words : IsSubSeq(w, Kinds(caption_text))

FontFactor(block) ==
  IF block.font_size > 12 THEN 1 ELSE IF block.font_size < 8 THEN 0 - 1 ELSE 0
BoldFactor(block) == IF block.is_bold THEN 2 ELSE 0
LengthFactor(match_text) ==
  LET n == CharLen(Strip(match_text))
  IN IF 10 < n /\ n < 100 THEN 1 ELSE IF n > 200 THEN 0 - 1 ELSE 0

\* C23: the caption confidence is 0.5 + f + b + l brought into [0, 1], with
\* f = +0.1 for a font size above 12, -0.1 below 8; b = +0.2 for bold;
\* l = +0.1 for a trimmed length strictly between 10 and 100, -0.1 above
\* 200; a bold block with a font size above 12 and 11 to 99 characters
\* scores above 0.5 and at most 1.0
C23_CaptionConfidenceFormula ==
  call.name = "_calculate_caption_confidence" =>
    LET block == call.args.block
        match_text == call.args.match_text
        sum == 5 + FontFactor(block) + BoldFactor(block) + LengthFactor(match_text)
    IN /\ call.returned.confidence = (IF sum < 0 THEN 0 ELSE IF sum > 10 THEN 10 ELSE sum)
       /\ (block.is_bold /\ block.font_size > 12 /\ LengthFactor(match_text) = 1)
            => /\ FLess(FLit(5, 10), call.returned.confidence_float)
               /\ FLeq(call.returned.confidence_float, FInt(1))

\* a bold block with font size 13 and 11 characters between white space
\* scores 0.9
C23_Witness ==
  /\ call.name = "_calculate_caption_confidence"
  /\ call.args.block.is_bold /\ call.args.block.font_size = 13
  /\ CharLen(call.args.match_text) = 13
  /\ CharLen(Strip(call.args.match_text)) = 11
  /\ call.returned.confidence = 9
  /\ call.returned.confidence_float = FLit(9, 10)

\* len(caption_text.strip()) of a match in a block
TrimmedTitleLength(bm) == CharLen(Strip(Group3(bm[1].text, bm[2])))

\* C24: every candidate identify_captions returns has a trimmed title of at
\* least min_caption_length characters, and a match whose trimmed title is
\* that long is a candidate before deduplication
C24_MinCaptionLength ==
  Identified =>
    LET raw == RawCandidates(config, text_blocks)
    IN /\ \A i \in 1..Len(captions) :
            CharLen(Strip(captions[i].text)) >= config.min_caption_length
       /\ \A bm \in CaptionMatches :
            TrimmedTitleLength(bm) >= config.min_caption_length
              => \E i \in 1..Len(raw) :
                   /\ raw[i].text = Strip(Group3(bm[1].text, bm[2]))
                   /\ raw[i].number = Number(bm[1].text, bm[2])
                   /\ raw[i].page_number = bm[1].page_number
                   /\ raw[i].position = bm[1].bbox

\* of two matches one has a title of exactly min_caption_length characters
\* and is returned, and one has a shorter title
C24_Witness ==
  /\ pc = "identified"
  /\ config.min_caption_length >= 2
  /\ \E bm \in CaptionMatches :
       /\ TrimmedTitleLength(bm) = config.min_caption_length
       /\ \E i \in 1..Len(captions) : captions[i].text = Strip(Group3(bm[1].text, bm[2]))
  /\ \E bm \in CaptionMatches : TrimmedTitleLength(bm) < config.min_caption_length

\* one step of a run: the stage that follows the one just done, fed with
\* what the stages before it left
StageStep ==
  /\ pc' # pc =>
       \/ pc = "new" /\ pc' = "ready"
       \/ pc = "ready" /\ pc' \in {"extracted", "raised"}
       \/ /\ pc = "extracted" /\ pc' = "identified"
          /\ captions' = SortCaptions(_deduplicate_captions(RawCandidates(config, text_blocks)))
       \/ /\ pc = "identified" /\ pc' = "referenced"
          /\ captions = SortCaptions(_deduplicate_captions(RawCandidates(config, text_blocks)))
          /\ {captions[i].number : i \in 1..Len(captions)}
               = {c.number : c \in {RawCandidates(config, text_blocks)[i] :
                                      i \in 1..Len(RawCandidates(config, text_blocks))}}
          /\ references' = find_references(config, text_blocks, captions)
       \/ /\ pc = "referenced" /\ pc' = "paired"
          /\ pairs' = pair_captions_with_contexts(captions, references)
       \/ /\ pc = "paired" /\ pc' = "done"
          /\ result' = filtered_pairs(pairs, config.confidence_threshold)
  /\ text_blocks' # text_blocks => pc = "ready"
  /\ captions' # captions => pc = "extracted"
  /\ references' # references => pc = "identified"
  /\ pairs' # pairs => pc = "referenced"
  /\ result' # result => pc = "paired"

\* C25: in a run of process_pdf each stage is executed exactly once and in
\* the order extract, detect (scan, deduplicate, sort), find references,
\* pair, filter; find_references is given the deduplicated captions, which
\* hold every number met, and pairing is given what the two stages before
\* it returned
C25_StagesOnceInOrder ==
  /\ [][StageStep]_vars
  /\ (pc = "extracted") ~> (pc = "done")

\* a finished run in which deduplication dropped a candidate, the sort
\* moved one, references were found and a pair was filtered out
C25_Witness ==
  /\ pc = "done"
  /\ Len(RawCandidates(config, text_blocks)) > Len(captions)
  /\ captions # _deduplicate_captions(RawCandidates(config, text_blocks))
  /\ references # <<>>
  /\ result # <<>>
  /\ Len(result) < Len(pairs)

\* a step of find_references, of pair_captions_with_contexts or of
\* get_processing_stats: what it was given is as it was
ArgumentsKept ==
  /\ (pc = "identified" /\ pc' = "referenced") => UNCHANGED <<config, text_blocks, captions>>
  /\ (pc = "referenced" /\ pc' = "paired") => UNCHANGED <<config, captions, references>>
  /\ stats' # stats =>
       /\ UNCHANGED <<config, text_blocks, captions, references, pairs, result>>
       /\ stats'.pairs \in {Batch(result, k) : k \in 1..MaxBatch}

\* C26: find_references, pair_captions_with_contexts and
\* get_processing_stats leave their inputs as they were: the fragments, the
\* captions and their order, the references, the pairs and the
\* configuration
C26_InputsUnchanged == [][ArgumentsKept]_vars

\* statistics were taken of a run that found references and grouped them
\* under captions
C26_Witness ==
  /\ stats.seen
  /\ stats.pairs # <<>>
  /\ references # <<>>
  /\ \E i \in 1..Len(pairs) : pairs[i].contexts # <<>>

\* the values id() may give the objects of a list: no two live objects
\* share one
ObjectIds(caption_list) ==
  {ids \in [1..Len(caption_list) -> 1..(Len(caption_list) + 1)] :
     \A i, j \in 1..Len(caption_list) : ids[i] = ids[j] => i = j}

\* the grouping keyed by the position of the caption in the list: the
\* reference_list that match the caption, in the order of the reference list
PairByIndex(caption_list, reference_list) ==
  [i \in 1..Len(caption_list) |->
     PairOf(caption_list[i],
            SelectSeq(reference_list, LAMBDA ref : _is_matching_caption(caption_list[i], ref)))]

\* the reference lists tried besides the one find_references returned
ReferenceLists ==
  {references, SubSeq(references, 2, Len(references)),
   [i \in 1..Len(references) |-> references[(i % Len(references)) + 1]]}

\* C27: grouping the references under id(caption) gives the same pair list
\* as grouping them under the index of the caption, for every caption list
\* of identify_captions and every reference list
C27_IdGroupingIsIndexGrouping ==
  Referenced =>
    \A refs \in ReferenceLists : \A ids \in ObjectIds(captions) :
      PairWithIds(captions, ids, refs) = PairByIndex(captions, refs)

\* two captions of the list have the same number and several references
\* are grouped under each of them
C27_Witness ==
  /\ pc = "paired"
  /\ \E i, j \in 1..Len(captions) :
       /\ i # j
       /\ captions[i].number = captions[j].number
       /\ Len(pairs[i].contexts) > 1

\* the reference is among the contexts of some pair
Attached(ref) == \E i \in 1..Len(pairs) : \E k \in 1..Len(pairs[i].contexts) :
  pairs[i].contexts[k] = ContextInfo(ref)

\* C28: every reference find_references accepted for the caption list is
\* attached by pair_captions_with_contexts to at least one caption of that
\* list: it is among the contexts of at least one pair
C28_AcceptedReferencesAttached ==
  Paired => \A r \in 1..Len(references) : Attached(references[r])

\* the extractor built with no arguments
DefaultConfig == Config(200, 5, 3)

\* C29: with the default confidence_threshold of 0.3 the final filter of
\* process_pdf drops nothing: every pair built from the captions of
\* identify_captions and the references of find_references, with or
\* without grouped references, has pairing_confidence >= 0.3, and the
\* list returned has exactly one pair per deduplicated caption
C29_DefaultThresholdKeepsAll ==
  /\ Paired => filtered_pairs(pairs, DefaultConfig.confidence_threshold) = pairs
  /\ (pc = "done" /\ config.confidence_threshold = DefaultConfig.confidence_threshold) =>
       /\ Len(result) = Len(captions)
       /\ \A i \in 1..Len(result) : result[i].caption = CaptionInfo(captions[i])

\* a run under the default threshold returned a pair with grouped
\* references and a pair with none
C29_Witness ==
  /\ pc = "done"
  /\ config = DefaultConfig
  /\ \E i, j \in 1..Len(result) : result[i].contexts # <<>> /\ result[j].contexts = <<>>

\* the match the candidate was built from starts with a label the patterns
\* matched by case folding only, and its text holds the word chart
FoldedLabelWithChart(caption) ==
  \E bm \in CaptionMatches :
    /\ bm[1].page_number = caption.page_number
    /\ Number(bm[1].text, bm[2]) = caption.number
    /\ Strip(Group3(bm[1].text, bm[2])) = caption.text
    /\ LabelOf(bm[1].text, bm[2]) = <<"figure_i">>
    /\ HasKind(Group0(bm[1].text, bm[2]), {"chart"})

====
